---- MODULE Spec2Model ----
(***************************************************************************)
(* SF2 -> SFZ conversion: the zone resolver and emitter                    *)
(* (src/services/sfzConverter.ts), the container decoder                   *)
(* (src/services/sf2Parser.ts) and the preset / sample filters of the UI   *)
(* (src/unnamed/part_000).                                                 *)
(*                                                                         *)
(* JavaScript arrays are 0-based; the tables are TLA+ sequences and are    *)
(* always read through At / InRange with the code's 0-based index.         *)
(* Names are sequences of character codes, as readString builds them.     *)
(* A generator map (Record<number, number>) is a function whose domain is  *)
(* the set of operators present.                                           *)
(***************************************************************************)
EXTENDS Integers, Sequences, FiniteSets, TLC

VARIABLES
  parsedData,        \* the decoded tables handed to getSFZContent
  preset,            \* index in parsedData.presets of the preset converted
  outputBase,        \* archive base name (character codes)
  pc,                \* position inside getSFZContent
  sfz,               \* the document built so far, one entry per line
  pBagStart, pBagEnd, globalPresetGens,
  pb, pGens, instId,
  iBagStart, iBagEnd, globalInstGens,
  ib,
  regions,           \* history: one entry per <region> emitted (pb, ib, maps)
  buffer,            \* SF2Parser.buffer: the file's bytes
  offset,            \* SF2Parser.offset: the read cursor
  ppc,               \* position inside SF2Parser.parse
  limit,             \* end of the LIST being walked (endOffset)
  pdtaLocal,         \* parsePdta's object under construction
  pdta,              \* parse's pdta: table name -> decoded records
  sdtaOffset, sdtaSize,
  data,              \* the value parse returned
  error,             \* the error parse threw ("" when none)
  seen,              \* history: the pdta sub-chunks decoded (id, at, size)
  status,            \* App state `status.stage`
  presetIdx,         \* convertAndDownload's loop index i
  presets,           \* App state `presets`: references into parsedData.presets
  exported,          \* the WAV files put in the archive
  wavSample,         \* createWavBuffer's argument
  wavResult,         \* what createWavBuffer handed back
  file,              \* App state `file`: 0 is null, else the file selected
  reading,           \* the files whose arrayBuffer() has not resolved yet
  parsing,           \* the file whose bytes the running parse was given
  dataFrom,          \* history: the file `parsedData` was decoded from
  presetsFrom        \* history: the file `presets` was filtered from

convVars == <<parsedData, preset, outputBase, pc, sfz, pBagStart, pBagEnd,
              globalPresetGens, pb, pGens, instId, iBagStart, iBagEnd,
              globalInstGens, ib, regions>>

parseVars == <<buffer, offset, ppc, limit, pdtaLocal, pdta, sdtaOffset, sdtaSize,
               data, error, seen>>

wavVars == <<wavSample, wavResult>>

fileVars == <<file, reading, parsing, dataFrom, presetsFrom>>

appVars == <<status, presetIdx, presets, exported, wavVars, fileVars>>

vars == <<convVars, parseVars, appVars>>

----------------------------------------------------------------------------
(* Generator ids, sfzConverter.ts lines 5-37 *)
OPER_PAN == 17
OPER_ATTACK_VOL_ENV == 34
OPER_DECAY_VOL_ENV == 36
OPER_SUSTAIN_VOL_ENV == 37
OPER_RELEASE_VOL_ENV == 38
OPER_INSTRUMENT == 41
OPER_KEY_RANGE == 43
OPER_VEL_RANGE == 44
OPER_COARSE_TUNE == 51
OPER_FINE_TUNE == 52
OPER_SAMPLE_ID == 53
OPER_SAMPLE_MODES == 54
OPER_OVERRIDING_ROOT_KEY == 58

----------------------------------------------------------------------------
(* JavaScript array and object access *)

\* arr[i] is defined (not undefined) for a 0-based index i
InRange(arr, i) == i >= 0 /\ i < Len(arr)
\* arr[i], 0-based
At(arr, i) == arr[i + 1]

EmptyGens == <<>>
\* gens[k] !== undefined
Present(gens, k) == k \in DOMAIN gens
\* { ...a, ...b }: b's keys override a's
Spread(a, b) ==
  [k \in (DOMAIN a) \cup (DOMAIN b) |-> IF k \in DOMAIN b THEN b[k] ELSE a[k]]

\* character codes
Underscore == 95
IsNameChar(c) ==
  \/ c \in 65..90 \/ c \in 97..122 \/ c \in 48..57 \/ c = Underscore \/ c = 45
\* sanitize: every character outside [A-Za-z0-9_-] becomes '_'; the trailing
\* trim() then finds no white space left to remove
sanitize(name) ==
  [i \in 1..Len(name) |-> IF IsNameChar(name[i]) THEN name[i] ELSE Underscore]

IsSpace(c) == c \in {9, 10, 11, 12, 13, 32, 160}
RECURSIVE TrimLeft(_)
TrimLeft(s) ==
  IF s # <<>> /\ IsSpace(Head(s)) THEN TrimLeft(Tail(s)) ELSE s
RECURSIVE TrimRight(_)
TrimRight(s) ==
  IF s # <<>> /\ IsSpace(s[Len(s)]) THEN TrimRight(SubSeq(s, 1, Len(s) - 1)) ELSE s
\* String.prototype.trim
trim(s) == TrimRight(TrimLeft(s))

EOS == <<69, 79, 83>>
EOP == <<69, 79, 80>>
EOI == <<69, 79, 73>>
DotWav == <<46, 119, 97, 118>>
SamplesSuffix == <<32, 83, 97, 109, 112, 108, 101, 115>>

----------------------------------------------------------------------------
(* getGenerators, sfzConverter.ts lines 72-82 *)

\* const end = (bags[bagIdx + 1]?.generatorStart) || genList.length
GenEnd(bags, genList, bagIdx) ==
  IF InRange(bags, bagIdx + 1) /\ At(bags, bagIdx + 1).generatorStart # 0
    THEN At(bags, bagIdx + 1).generatorStart
    ELSE Len(genList)

\* the loop reads genList[i].operator with genList[i] undefined: a TypeError
GenOverrun(bags, genList, bagIdx) ==
  /\ InRange(bags, bagIdx)
  /\ \E i \in At(bags, bagIdx).generatorStart .. GenEnd(bags, genList, bagIdx) - 1 :
       ~InRange(genList, i)

RECURSIVE GenLoop(_, _, _, _)
GenLoop(genList, i, end, gens) ==
  IF i < end /\ InRange(genList, i)
    THEN GenLoop(genList, i + 1, end,
                 Spread(gens, At(genList, i).operator :> At(genList, i).amount))
    ELSE gens

getGenerators(bags, genList, bagIdx) ==
  IF bagIdx < 0 \/ bagIdx >= Len(bags)
    THEN EmptyGens
    ELSE GenLoop(genList, At(bags, bagIdx).generatorStart,
                 GenEnd(bags, genList, bagIdx), EmptyGens)

----------------------------------------------------------------------------
(* getSFZContent, sfzConverter.ts lines 84-208 *)

Line(k, v) == [key |-> k, val |-> v]

\* lines 89-93: comment header and <control> block
Header(p, base) ==
  << Line("//", trim(p.name)),
     Line("// Converted from SF2 to SFZ by SF2 to SFZ Studio", <<>>),
     Line("", <<>>),
     Line("<control>", <<>>),
     Line("default_path", base \o <<32>> \o trim(p.name) \o SamplesSuffix),
     Line("", <<>>) >>

\* (records[i + 1]?.bagIndex) || bags.length, lines 96 and 114
BagEnd(records, bags, i) ==
  IF InRange(records, i + 1) /\ At(records, i + 1).bagIndex # 0
    THEN At(records, i + 1).bagIndex
    ELSE Len(bags)

\* mutant of GlobalGens: the range must hold a second zone
GlobalGensTwoZones(firstGens, terminator, bagStart, bagEnd) ==
  IF ~Present(firstGens, terminator) /\ bagEnd > bagStart + 1
    THEN firstGens
    ELSE EmptyGens

\* lines 99-103 and 117-121: the first zone's map is kept as the global layer
GlobalGens(firstGens, terminator, bagStart, bagEnd) ==
  IF ~Present(firstGens, terminator) /\ bagEnd > bagStart
    THEN firstGens
    ELSE EmptyGens

\* mutant of Merge: the global zones spread after the local ones
MergeGlobalsLast(gp, p, gi, i) == Spread(Spread(Spread(p, gp), i), gi)

\* line 132
Merge(gp, p, gi, i) == Spread(Spread(Spread(gp, p), gi), i)

\* mutant of RangeOverride: the preset zone's range is tried first
RangeOverridePresetFirst(c, p, i, op) ==
  IF Present(p, op) THEN Spread(c, op :> p[op])
  ELSE IF Present(i, op) THEN Spread(c, op :> i[op])
  ELSE c

\* lines 135-139: a range of the instrument zone, else of the preset zone,
\* replaces whatever the merge left under that key
RangeOverride(c, p, i, op) ==
  IF Present(i, op) THEN Spread(c, op :> i[op])
  ELSE IF Present(p, op) THEN Spread(c, op :> p[op])
  ELSE c

Combined(gp, p, gi, i) ==
  RangeOverride(RangeOverride(Merge(gp, p, gi, i), p, i, OPER_KEY_RANGE),
                p, i, OPER_VEL_RANGE)

\* mutant of HighBits: the whole high byte
HighBitsUnmasked(v) == (v \div 256) % 256

\* v & 0x7F and (v >> 8) & 0x7F on a signed amount
LowBits(v) == v % 128
HighBits(v) == (v \div 256) % 128

\* lines 145-154
KeyLines(c) ==
  IF Present(c, OPER_KEY_RANGE)
    THEN IF LowBits(c[OPER_KEY_RANGE]) = HighBits(c[OPER_KEY_RANGE])
           THEN << Line("key", <<LowBits(c[OPER_KEY_RANGE])>>) >>
           ELSE << Line("lokey hikey",
                        <<LowBits(c[OPER_KEY_RANGE]), HighBits(c[OPER_KEY_RANGE])>>) >>
    ELSE << Line("lokey hikey", <<0, 127>>) >>

\* lines 156-161
VelLines(c) ==
  IF Present(c, OPER_VEL_RANGE)
    THEN << Line("lovel hivel",
                 <<LowBits(c[OPER_VEL_RANGE]), HighBits(c[OPER_VEL_RANGE])>>) >>
    ELSE <<>>

\* a directive written when the generator is present; the number printed is a
\* floating-point rendering of the amount, carried here as the amount itself
OptLine(c, op, k) == IF Present(c, op) THEN << Line(k, <<c[op]>>) >> ELSE <<>>

\* combined[op] || 0
OrZero(c, op) == IF Present(c, op) THEN c[op] ELSE 0

\* lines 184-187
RootKey(c, sample) ==
  IF Present(c, OPER_OVERRIDING_ROOT_KEY) /\ c[OPER_OVERRIDING_ROOT_KEY] # -1
    THEN c[OPER_OVERRIDING_ROOT_KEY]
    ELSE sample.originalPitch

\* lines 189-193
Tune(c, sample) ==
  OrZero(c, OPER_COARSE_TUNE) * 100 + OrZero(c, OPER_FINE_TUNE)
    + sample.pitchCorrection

\* lines 196-202
LoopLines(c, sample) ==
  IF OrZero(c, OPER_SAMPLE_MODES) % 4 \in {1, 3}
    THEN << Line("loop_mode=loop_continuous", <<>>),
            Line("loop_start", <<sample.startLoop - sample.start>>),
            Line("loop_end", <<sample.endLoop - sample.start>>) >>
    ELSE <<>>

\* lines 141-204: one <region> block
RegionLines(c, sample) ==
  << Line("<region>", <<>>), Line("sample", sanitize(sample.name) \o DotWav) >>
  \o KeyLines(c)
  \o VelLines(c)
  \o OptLine(c, OPER_ATTACK_VOL_ENV, "ampeg_attack")
  \o OptLine(c, OPER_DECAY_VOL_ENV, "ampeg_decay")
  \o OptLine(c, OPER_SUSTAIN_VOL_ENV, "ampeg_sustain")
  \o OptLine(c, OPER_RELEASE_VOL_ENV, "ampeg_release")
  \o OptLine(c, OPER_PAN, "pan")
  \o << Line("pitch_keycenter", <<RootKey(c, sample)>>) >>
  \o (IF Tune(c, sample) # 0 THEN << Line("tune", <<Tune(c, sample)>>) >> ELSE <<>>)
  \o LoopLines(c, sample)
  \o << Line("", <<>>) >>

\* line 129: the sample a zone may use
SampleUsable(samples, sampleId) ==
  InRange(samples, sampleId) /\ At(samples, sampleId).name # EOS

----------------------------------------------------------------------------
(* getSFZContent as a process: one step per loop iteration *)

\* mutant of InstrumentMissing: only the upper end of the table is checked
InstrumentMissingUpperOnly(instruments, id) == id >= Len(instruments)

\* `if (!instrument) continue`, line 111
InstrumentMissing(instruments, id) == ~InRange(instruments, id)

\* `if (!sample || sample.name === 'EOS') continue`, line 129
SampleSkipped(samples, id) == ~SampleUsable(samples, id)

ConvFail ==
  /\ pc' = "failed"
  /\ UNCHANGED <<parseVars, appVars, parsedData, preset, outputBase, sfz, pBagStart, pBagEnd,
                 globalPresetGens, pb, pGens, instId, iBagStart, iBagEnd,
                 globalInstGens, ib, regions>>

\* lines 89-103: header, the preset's zone range, the global preset zone
ConvStart ==
  /\ pc = "start"
  /\ LET p     == At(parsedData.presets, preset)
         start == p.bagIndex
         end   == BagEnd(parsedData.presets, parsedData.pbag, preset)
         first == getGenerators(parsedData.pbag, parsedData.pgen, start)
     IN  /\ sfz' = Header(p, outputBase)
         /\ pBagStart' = start
         /\ pBagEnd' = end
         /\ IF GenOverrun(parsedData.pbag, parsedData.pgen, start)
              THEN /\ pc' = "failed"
                   /\ UNCHANGED <<globalPresetGens, pb>>
              ELSE /\ globalPresetGens' =
                        GlobalGens(first, OPER_INSTRUMENT, start, end)
                   /\ pb' = start
                   /\ pc' = "presetLoop"
  /\ UNCHANGED <<parseVars, appVars, parsedData, preset, outputBase, pGens, instId, iBagStart,
                 iBagEnd, globalInstGens, ib, regions>>

\* line 105 exit: the document is returned
ConvReturn ==
  /\ pc = "presetLoop"
  /\ pb >= pBagEnd
  /\ pc' = "done"
  /\ UNCHANGED <<parseVars, appVars, parsedData, preset, outputBase, sfz, pBagStart, pBagEnd,
                 globalPresetGens, pb, pGens, instId, iBagStart, iBagEnd,
                 globalInstGens, ib, regions>>

\* lines 105-121: one preset zone
ConvPresetZone ==
  /\ pc = "presetLoop"
  /\ pb < pBagEnd
  /\ IF GenOverrun(parsedData.pbag, parsedData.pgen, pb)
       THEN ConvFail
       ELSE LET gens == getGenerators(parsedData.pbag, parsedData.pgen, pb)
            IN  IF ~Present(gens, OPER_INSTRUMENT)
                     \/ InstrumentMissing(parsedData.instruments, gens[OPER_INSTRUMENT])
                  THEN \* continue
                       /\ pb' = pb + 1
                       /\ pGens' = gens
                       /\ UNCHANGED <<parseVars, appVars, parsedData, preset, outputBase, pc, sfz,
                                      pBagStart, pBagEnd, globalPresetGens, instId,
                                      iBagStart, iBagEnd, globalInstGens, ib, regions>>
                  ELSE LET id == gens[OPER_INSTRUMENT]
                       IN  IF ~InRange(parsedData.instruments, id)
                                \/ GenOverrun(parsedData.ibag, parsedData.igen,
                                              At(parsedData.instruments, id).bagIndex)
                             THEN \* instrument.bagIndex of undefined, or the
                                  \* generator loop runs off igen
                                  ConvFail
                             ELSE LET start == At(parsedData.instruments, id).bagIndex
                                      end   == BagEnd(parsedData.instruments,
                                                      parsedData.ibag, id)
                                      first == getGenerators(parsedData.ibag,
                                                             parsedData.igen, start)
                                  IN  /\ pGens' = gens
                                      /\ instId' = id
                                      /\ iBagStart' = start
                                      /\ iBagEnd' = end
                                      /\ globalInstGens' =
                                           GlobalGens(first, OPER_SAMPLE_ID, start, end)
                                      /\ ib' = start
                                      /\ pc' = "instLoop"
                                      /\ UNCHANGED <<parseVars, appVars, parsedData, preset, outputBase,
                                                     sfz, pBagStart, pBagEnd,
                                                     globalPresetGens, pb, regions>>

\* line 123 exit: next preset zone
ConvInstDone ==
  /\ pc = "instLoop"
  /\ ib >= iBagEnd
  /\ pb' = pb + 1
  /\ pc' = "presetLoop"
  /\ UNCHANGED <<parseVars, appVars, parsedData, preset, outputBase, sfz, pBagStart, pBagEnd,
                 globalPresetGens, pGens, instId, iBagStart, iBagEnd,
                 globalInstGens, ib, regions>>

\* lines 123-205: one instrument zone
ConvInstZone ==
  /\ pc = "instLoop"
  /\ ib < iBagEnd
  /\ IF GenOverrun(parsedData.ibag, parsedData.igen, ib)
       THEN ConvFail
       ELSE LET iGens == getGenerators(parsedData.ibag, parsedData.igen, ib)
            IN  IF ~Present(iGens, OPER_SAMPLE_ID)
                     \/ SampleSkipped(parsedData.samples, iGens[OPER_SAMPLE_ID])
                  THEN \* continue
                       /\ ib' = ib + 1
                       /\ UNCHANGED <<parseVars, appVars, parsedData, preset, outputBase, pc, sfz,
                                      pBagStart, pBagEnd, globalPresetGens, pb,
                                      pGens, instId, iBagStart, iBagEnd,
                                      globalInstGens, regions>>
                  ELSE IF ~InRange(parsedData.samples, iGens[OPER_SAMPLE_ID])
                         THEN \* sample.name of undefined
                              ConvFail
                         ELSE LET sample == At(parsedData.samples, iGens[OPER_SAMPLE_ID])
                                  c == Combined(globalPresetGens, pGens,
                                                globalInstGens, iGens)
                              IN  /\ sfz' = sfz \o RegionLines(c, sample)
                                  /\ regions' = Append(regions,
                                       [pb |-> pb, ib |-> ib,
                                        sampleId |-> iGens[OPER_SAMPLE_ID],
                                        gp |-> globalPresetGens, p |-> pGens,
                                        gi |-> globalInstGens, i |-> iGens,
                                        combined |-> c,
                                        at |-> Len(sfz)])
                                  /\ ib' = ib + 1
                                  /\ UNCHANGED <<parseVars, appVars, parsedData, preset, outputBase, pc,
                                                 pBagStart, pBagEnd, globalPresetGens,
                                                 pb, pGens, instId, iBagStart, iBagEnd,
                                                 globalInstGens>>

----------------------------------------------------------------------------
(* Decoded tables the conversion is run on: two presets and two instruments *)
(* whose zones are laid out back to back, as pbag/pgen and ibag/igen hold   *)
(* them, and three sample headers, the last being the EOS sentinel.        *)

MaxZones == 2

G(op, amt) == [operator |-> op, amount |-> amt]
Pack(lo, hi) == lo + 256 * hi

PresetZones ==
  { <<>>,
    << G(OPER_PAN, 10), G(OPER_KEY_RANGE, Pack(36, 60)), G(OPER_VEL_RANGE, Pack(1, 100)) >>,
    << G(OPER_PAN, 20), G(OPER_VEL_RANGE, Pack(5, 5)), G(OPER_INSTRUMENT, 0) >>,
    << G(OPER_INSTRUMENT, -1) >> }

InstZones ==
  { << G(OPER_PAN, 30), G(OPER_KEY_RANGE, Pack(0, 127)), G(OPER_VEL_RANGE, Pack(2, 3)) >>,
    << G(OPER_PAN, 40), G(OPER_SAMPLE_ID, 0) >>,
    << G(OPER_KEY_RANGE, Pack(1, 255) - 65536), G(OPER_VEL_RANGE, Pack(64, 127)),
       G(OPER_SAMPLE_ID, 1) >>,
    << G(OPER_SAMPLE_ID, 2) >>,
    << G(OPER_SAMPLE_ID, 3) >> }

ZoneSeqs(pool) == UNION { [1..n -> pool] : n \in 0..MaxZones }

RECURSIVE GenTable(_)
GenTable(zones) ==
  IF zones = <<>> THEN <<>> ELSE Head(zones) \o GenTable(Tail(zones))

RECURSIVE BagTable(_, _)
BagTable(zones, from) ==
  IF zones = <<>> THEN <<>>
  ELSE << [generatorStart |-> from, modulatorStart |-> 0] >>
         \o BagTable(Tail(zones), from + Len(Head(zones)))

Sample(n, pitch, corr, d) ==
  [name |-> n, start |-> 8, end |-> 8 + Len(d), startLoop |-> 9, endLoop |-> 10,
   sampleRate |-> 44100, originalPitch |-> pitch, pitchCorrection |-> corr,
   sampleLink |-> 0, sampleType |-> 1, data |-> d]

SampleTable ==
  << Sample(<<83, 110, 100>>, 60, 0, <<3, -4>>),
     Sample(<<65, 32, 35>>, 72, -5, <<7>>),
     Sample(EOS, 0, 0, <<>>) >>

Tables(pz, psplit, iz, isplit) ==
  [presets     |-> << [name |-> <<84, 101, 115, 116>>, bagIndex |-> 0],
                      [name |-> <<80, 50, 32>>, bagIndex |-> psplit] >>,
   instruments |-> << [name |-> <<73, 49>>, bagIndex |-> 0],
                      [name |-> <<73, 50>>, bagIndex |-> isplit] >>,
   samples     |-> SampleTable,
   pbag        |-> BagTable(pz, 0),
   ibag        |-> BagTable(iz, 0),
   pgen        |-> GenTable(pz),
   igen        |-> GenTable(iz)]

\* getSFZContent's locals before it runs
ConvIdle ==
  /\ sfz = <<>>
  /\ regions = <<>>
  /\ pBagStart = 0 /\ pBagEnd = 0 /\ pb = 0
  /\ iBagStart = 0 /\ iBagEnd = 0 /\ ib = 0
  /\ instId = 0
  /\ globalPresetGens = EmptyGens /\ pGens = EmptyGens
  /\ globalInstGens = EmptyGens

\* createWavBuffer has not been called
WavIdle == wavSample = <<>> /\ wavResult = <<>>

\* no file has been selected
NoFile ==
  /\ file = 0 /\ reading = {} /\ parsing = 0 /\ dataFrom = 0 /\ presetsFrom = 0

\* no file is being parsed
ParseIdle ==
  /\ buffer = <<>> /\ offset = 0 /\ ppc = "none" /\ limit = 0
  /\ pdtaLocal = <<>> /\ pdta = <<>> /\ sdtaOffset = 0 /\ sdtaSize = 0
  /\ data = <<>> /\ error = "" /\ seen = <<>>
  /\ presets = <<>> /\ exported = <<>> /\ presetIdx = 0

ConvInit ==
  /\ \E pz \in ZoneSeqs(PresetZones), iz \in ZoneSeqs(InstZones) :
       \E psplit \in 0..Len(pz), isplit \in 0..Len(iz) :
         parsedData = Tables(pz, psplit, iz, isplit)
  /\ preset \in {0, 1}
  /\ outputBase = <<66>>
  /\ pc = "start"
  /\ status = "converting"
  /\ ConvIdle
  /\ ParseIdle
  /\ WavIdle
  /\ NoFile

ConvNext ==
  \/ ConvStart
  \/ ConvReturn
  \/ ConvPresetZone
  \/ ConvInstDone
  \/ ConvInstZone

Init == ConvInit
Next == ConvNext
Spec == Init /\ [][Next]_vars

----------------------------------------------------------------------------
(* DataView reads, sf2Parser.ts lines 14-47 and 205-209.  Offsets are the   *)
(* code's 0-based byte offsets; a read that leaves the buffer throws a      *)
(* RangeError.                                                             *)

Byte(buf, i) == buf[i + 1]
\* getUintN / getIntN at `off` stays inside the view
CanRead(buf, off, n) == off >= 0 /\ off + n <= Len(buf)

readUint8(buf, off) == Byte(buf, off)
readInt8(buf, off) ==
  IF Byte(buf, off) >= 128 THEN Byte(buf, off) - 256 ELSE Byte(buf, off)
readUint16(buf, off) == Byte(buf, off) + 256 * Byte(buf, off + 1)
readInt16(buf, off) ==
  IF readUint16(buf, off) >= 32768
    THEN readUint16(buf, off) - 65536
    ELSE readUint16(buf, off)
readUint32(buf, off) == readUint16(buf, off) + 65536 * readUint16(buf, off + 2)

\* lines 16-20: the characters before the first NUL, at most `length` of them
RECURSIVE RawString(_, _, _)
RawString(buf, off, length) ==
  IF length = 0 \/ ~CanRead(buf, off, 1) \/ Byte(buf, off) = 0
    THEN <<>>
    ELSE <<Byte(buf, off)>> \o RawString(buf, off + 1, length - 1)

\* getUint8 is reached past the end of the view before a NUL stops the loop
StrThrows(buf, off, length) ==
  /\ ~CanRead(buf, off, length)
  /\ Len(RawString(buf, off, length)) = (IF off >= Len(buf) THEN 0 ELSE Len(buf) - off)

\* line 22
readString(buf, off, length) == trim(RawString(buf, off, length))

----------------------------------------------------------------------------
(* Chunk tags *)
RIFF == <<82, 73, 70, 70>>
sfbk == <<115, 102, 98, 107>>
LIST == <<76, 73, 83, 84>>
pdtaTag == <<112, 100, 116, 97>>
sdtaTag == <<115, 100, 116, 97>>
smpl == <<115, 109, 112, 108>>
phdr == <<112, 104, 100, 114>>
pbag == <<112, 98, 97, 103>>
pgen == <<112, 103, 101, 110>>
inst == <<105, 110, 115, 116>>
ibag == <<105, 98, 97, 103>>
igen == <<105, 103, 101, 110>>
shdr == <<115, 104, 100, 114>>

----------------------------------------------------------------------------
(* Record decoders, sf2Parser.ts lines 132-203 *)

PhdrAt(buf, off) ==
  [name       |-> readString(buf, off, 20),
   preset     |-> readUint16(buf, off + 20),
   bank       |-> readUint16(buf, off + 22),
   bagIndex   |-> readUint16(buf, off + 24),
   library    |-> readUint32(buf, off + 26),
   genre      |-> readUint32(buf, off + 30),
   morphology |-> readUint32(buf, off + 34)]

BagAt(buf, off) ==
  [generatorStart |-> readUint16(buf, off),
   modulatorStart |-> readUint16(buf, off + 2)]

GenAt(buf, off) ==
  [operator |-> readUint16(buf, off),
   amount   |-> readInt16(buf, off + 2)]

InstAt(buf, off) ==
  [name     |-> readString(buf, off, 20),
   bagIndex |-> readUint16(buf, off + 20)]

ShdrAt(buf, off) ==
  [name            |-> readString(buf, off, 20),
   start           |-> readUint32(buf, off + 20),
   end             |-> readUint32(buf, off + 24),
   startLoop       |-> readUint32(buf, off + 28),
   endLoop         |-> readUint32(buf, off + 32),
   sampleRate      |-> readUint32(buf, off + 36),
   originalPitch   |-> readUint8(buf, off + 40),
   pitchCorrection |-> readInt8(buf, off + 41),
   sampleLink      |-> readUint16(buf, off + 42),
   sampleType      |-> readUint16(buf, off + 44)]

\* `for (let i = 0; i < size / width; i++)`: the number of iterations when
\* count is the real quotient size / width
Iterations(size, width) == (size + width - 1) \div width

\* what a reader hands back: it threw, or the items it pushed
Threw == [threw |-> TRUE, items |-> <<>>]
Items(recs) == [threw |-> FALSE, items |-> recs]

\* lines 132-147; the loop throws when one of its reads leaves the buffer
readPhdr(buf, off, size) ==
  IF ~CanRead(buf, off, Iterations(size, 38) * 38) THEN Threw
  ELSE Items([i \in 1..Iterations(size, 38) |-> PhdrAt(buf, off + (i - 1) * 38)])

\* lines 149-159
readBag(buf, off, size) ==
  IF ~CanRead(buf, off, Iterations(size, 4) * 4) THEN Threw
  ELSE Items([i \in 1..Iterations(size, 4) |-> BagAt(buf, off + (i - 1) * 4)])

\* lines 161-171
readGen(buf, off, size) ==
  IF ~CanRead(buf, off, Iterations(size, 4) * 4) THEN Threw
  ELSE Items([i \in 1..Iterations(size, 4) |-> GenAt(buf, off + (i - 1) * 4)])

\* lines 173-183
readInst(buf, off, size) ==
  IF ~CanRead(buf, off, Iterations(size, 22) * 22) THEN Threw
  ELSE Items([i \in 1..Iterations(size, 22) |-> InstAt(buf, off + (i - 1) * 22)])

\* lines 185-203
readShdr(buf, off, size) ==
  IF ~CanRead(buf, off, Iterations(size, 46) * 46) THEN Threw
  ELSE Items([i \in 1..Iterations(size, 46) |-> ShdrAt(buf, off + (i - 1) * 46)])

\* the tables parsePdta decodes, under the property name it stores them
PdtaTables == {phdr, pbag, pgen, inst, ibag, igen, shdr}
TableKey(id) ==
  CASE id = phdr -> "phdr" [] id = pbag -> "pbag" [] id = pgen -> "pgen"
    [] id = inst -> "inst" [] id = ibag -> "ibag" [] id = igen -> "igen"
    [] id = shdr -> "shdr"

\* the switch of lines 117-126
ReadTable(buf, id, off, size) ==
  CASE id = phdr -> readPhdr(buf, off, size)
    [] id \in {pbag, ibag} -> readBag(buf, off, size)
    [] id \in {pgen, igen} -> readGen(buf, off, size)
    [] id = inst -> readInst(buf, off, size)
    [] id = shdr -> readShdr(buf, off, size)

----------------------------------------------------------------------------
(* SF2Parser.parse as a process: one step per loop iteration *)

\* parse throws: the cursor and the partial tables die with the parser
Throw(msg) ==
  /\ ppc' = "threw"
  /\ error' = msg
  /\ UNCHANGED <<buffer, offset, limit, pdtaLocal, pdta, sdtaOffset, sdtaSize,
                 data, seen>>

\* mutant of HeaderError: the size field must give the bytes that follow it
HeaderErrorSizeChecked(buf) ==
  IF StrThrows(buf, 0, 4) THEN "RangeError"
  ELSE IF readString(buf, 0, 4) # RIFF THEN "Not a RIFF file"
  ELSE IF ~CanRead(buf, 4, 4) THEN "RangeError"
  ELSE IF readUint32(buf, 4) # Len(buf) - 8 THEN "Not a RIFF file"
  ELSE IF StrThrows(buf, 8, 4) THEN "RangeError"
  ELSE IF readString(buf, 8, 4) # sfbk THEN "Not a SoundFont file"
  ELSE ""

\* lines 51-55: the error of the RIFF verification, "" when it passes
HeaderError(buf) ==
  IF StrThrows(buf, 0, 4) THEN "RangeError"
  ELSE IF readString(buf, 0, 4) # RIFF THEN "Not a RIFF file"
  ELSE IF ~CanRead(buf, 4, 4) THEN "RangeError"
  ELSE IF StrThrows(buf, 8, 4) THEN "RangeError"
  ELSE IF readString(buf, 8, 4) # sfbk THEN "Not a SoundFont file"
  ELSE ""

\* lines 51-59
ParseHeader ==
  /\ ppc = "header"
  /\ IF HeaderError(buffer) # ""
       THEN Throw(HeaderError(buffer))
       ELSE /\ offset' = 12
            /\ ppc' = "chunks"
            /\ pdta' = <<>>
            /\ sdtaOffset' = 0
            /\ sdtaSize' = 0
            /\ UNCHANGED <<buffer, limit, pdtaLocal, data, error, seen>>
  /\ UNCHANGED <<convVars, appVars>>

\* mutant of endOffset: the body is padded to an even length, as RIFF pads it
endOffsetPadded(off, chunkSize) == off + 8 + chunkSize + (chunkSize % 2)

\* line 64, for a chunk whose header starts at off: the 8 bytes of the header
\* are read by lines 62-63 before this.offset is used
endOffset(off, chunkSize) == off + 8 + chunkSize

\* lines 61-88: one top-level chunk
ParseChunk ==
  /\ ppc = "chunks"
  /\ offset < Len(buffer)
  /\ IF StrThrows(buffer, offset, 4) \/ ~CanRead(buffer, offset + 4, 4)
       THEN Throw("RangeError")
       ELSE LET chunkId   == readString(buffer, offset, 4)
                chunkSize == readUint32(buffer, offset + 4)
            IN  IF chunkId # LIST
                  THEN /\ offset' = endOffset(offset, chunkSize)
                       /\ UNCHANGED <<buffer, ppc, limit, pdtaLocal, pdta,
                                      sdtaOffset, sdtaSize, data, error, seen>>
                  ELSE IF StrThrows(buffer, offset + 8, 4)
                         THEN Throw("RangeError")
                         ELSE LET listType == readString(buffer, offset + 8, 4)
                              IN  IF listType = pdtaTag
                                    THEN /\ offset' = offset + 12
                                         /\ ppc' = "pdta"
                                         /\ limit' = endOffset(offset, chunkSize)
                                         /\ pdtaLocal' = <<>>
                                         /\ UNCHANGED <<buffer, pdta, sdtaOffset,
                                                        sdtaSize, data, error, seen>>
                                  ELSE IF listType = sdtaTag
                                    THEN /\ offset' = offset + 12
                                         /\ ppc' = "sdta"
                                         /\ limit' = endOffset(offset, chunkSize)
                                         /\ UNCHANGED <<buffer, pdtaLocal, pdta,
                                                        sdtaOffset, sdtaSize, data,
                                                        error, seen>>
                                  ELSE /\ offset' = endOffset(offset, chunkSize)
                                       /\ UNCHANGED <<buffer, ppc, limit, pdtaLocal,
                                                      pdta, sdtaOffset, sdtaSize,
                                                      data, error, seen>>
  /\ UNCHANGED <<convVars, appVars>>

\* lines 112-128: one sub-chunk of the pdta list
PdtaSub ==
  /\ ppc = "pdta"
  /\ offset < limit
  /\ IF StrThrows(buffer, offset, 4) \/ ~CanRead(buffer, offset + 4, 4)
       THEN Throw("RangeError")
       ELSE LET id   == readString(buffer, offset, 4)
                size == readUint32(buffer, offset + 4)
                next == offset + 8 + size
            IN  IF id \notin PdtaTables
                  THEN /\ offset' = next
                       /\ UNCHANGED <<buffer, ppc, limit, pdtaLocal, pdta,
                                      sdtaOffset, sdtaSize, data, error, seen>>
                  ELSE IF ReadTable(buffer, id, offset + 8, size).threw
                         THEN Throw("RangeError")
                         ELSE /\ pdtaLocal' =
                                   Spread(pdtaLocal,
                                          TableKey(id) :>
                                            ReadTable(buffer, id, offset + 8, size).items)
                              /\ seen' = Append(seen, [id |-> TableKey(id),
                                                       at |-> offset + 8,
                                                       size |-> size])
                              /\ offset' = next
                              /\ UNCHANGED <<buffer, ppc, limit, pdta, sdtaOffset,
                                             sdtaSize, data, error>>
  /\ UNCHANGED <<convVars, appVars>>

\* lines 112 exit, 129 and 69: parsePdta returns its object to parse
PdtaReturn ==
  /\ ppc = "pdta"
  /\ offset >= limit
  /\ pdta' = pdtaLocal
  /\ ppc' = "chunks"
  /\ UNCHANGED <<buffer, offset, limit, pdtaLocal, sdtaOffset, sdtaSize, data,
                 error, seen>>
  /\ UNCHANGED <<convVars, appVars>>

\* lines 72-82: one sub-chunk of the sdta list
SdtaSub ==
  /\ ppc = "sdta"
  /\ offset < limit
  /\ IF StrThrows(buffer, offset, 4) \/ ~CanRead(buffer, offset + 4, 4)
       THEN Throw("RangeError")
       ELSE LET subId   == readString(buffer, offset, 4)
                subSize == readUint32(buffer, offset + 4)
            IN  /\ offset' = offset + 8 + subSize
                /\ IF subId = smpl
                     THEN /\ sdtaOffset' = offset + 8
                          /\ sdtaSize' = subSize
                     ELSE UNCHANGED <<sdtaOffset, sdtaSize>>
                /\ UNCHANGED <<buffer, ppc, limit, pdtaLocal, pdta, data, error,
                               seen>>
  /\ UNCHANGED <<convVars, appVars>>

\* line 72 exit
SdtaDone ==
  /\ ppc = "sdta"
  /\ offset >= limit
  /\ ppc' = "chunks"
  /\ UNCHANGED <<buffer, offset, limit, pdtaLocal, pdta, sdtaOffset, sdtaSize,
                 data, error, seen>>
  /\ UNCHANGED <<convVars, appVars>>

\* ArrayBuffer.prototype.slice(from, to): both ends clamped to the buffer
SliceFrom(buf, from) == IF from > Len(buf) THEN Len(buf) ELSE from
SliceLen(buf, from, to) ==
  IF SliceFrom(buf, to) > SliceFrom(buf, from)
    THEN SliceFrom(buf, to) - SliceFrom(buf, from)
    ELSE 0

\* new Int16Array(bytes) throws on an odd byte length
SliceThrows(buf, from, to) == SliceLen(buf, from, to) % 2 = 1

\* the little-endian 16-bit values of the slice
Int16Array(buf, from, to) ==
  [k \in 1..(SliceLen(buf, from, to) \div 2) |->
     readInt16(buf, SliceFrom(buf, from) + 2 * (k - 1))]

\* lines 92-97
AttachData(buf, s, base) ==
  [name |-> s.name, start |-> s.start, end |-> s.end,
   startLoop |-> s.startLoop, endLoop |-> s.endLoop,
   sampleRate |-> s.sampleRate, originalPitch |-> s.originalPitch,
   pitchCorrection |-> s.pitchCorrection, sampleLink |-> s.sampleLink,
   sampleType |-> s.sampleType,
   data |-> Int16Array(buf, base + s.start * 2, base + s.end * 2)]

\* an own property of the object, or undefined
Defined(obj, k) == k \in DOMAIN obj

\* lines 99-107: the object returned; a table pdta lacks is left out
\* (its property is undefined)
Returned(buf, tables, base) ==
  LET keys == {k \in {"phdr", "inst", "pbag", "ibag", "pgen", "igen"} :
                 Defined(tables, k)}
      Prop(k) == CASE k = "phdr" -> "presets" [] k = "inst" -> "instruments"
                   [] OTHER -> k
      Src(n) == CHOOSE k \in keys : Prop(k) = n
  IN  [n \in {Prop(k) : k \in keys} \cup {"samples"} |->
         IF n = "samples"
           THEN [j \in 1..Len(tables["shdr"]) |->
                   AttachData(buf, tables["shdr"][j], base)]
           ELSE tables[Src(n)]]

\* lines 61 exit and 92-107
ParseFinish ==
  /\ ppc = "chunks"
  /\ offset >= Len(buffer)
  /\ IF ~Defined(pdta, "shdr")
       THEN Throw("TypeError")
       ELSE IF \E j \in 1..Len(pdta["shdr"]) :
                 SliceThrows(buffer, sdtaOffset + pdta["shdr"][j].start * 2,
                             sdtaOffset + pdta["shdr"][j].end * 2)
         THEN Throw("RangeError")
         ELSE /\ data' = Returned(buffer, pdta, sdtaOffset)
              /\ ppc' = "returned"
              /\ UNCHANGED <<buffer, offset, limit, pdtaLocal, pdta, sdtaOffset,
                             sdtaSize, error, seen>>
  /\ UNCHANGED <<convVars, appVars>>

ParseNext ==
  \/ ParseHeader
  \/ ParseChunk
  \/ PdtaSub
  \/ PdtaReturn
  \/ SdtaSub
  \/ SdtaDone
  \/ ParseFinish

----------------------------------------------------------------------------
(* createWavBuffer, sfzConverter.ts lines 46-70 *)

\* DataView.setUint16 / setInt16 / setUint32 with littleEndian = true: the
\* bytes written; the value is reduced modulo the field's width
setUint16(v) == << v % 256, (v \div 256) % 256 >>

\* mutant of setInt16: the high byte first
setInt16BigEndian(v) == << (v \div 256) % 256, v % 256 >>

setInt16(v) == << v % 256, (v \div 256) % 256 >>
setUint32(v) ==
  << v % 256, (v \div 256) % 256, (v \div 65536) % 256, (v \div 16777216) % 256 >>

\* the four characters written by setUint32(at, 0x........, false)
WavRIFF == <<82, 73, 70, 70>>
WavWAVE == <<87, 65, 86, 69>>
WavFmt == <<102, 109, 116, 32>>
WavData == <<100, 97, 116, 97>>

\* lines 66-68: value i goes to the bytes 2i and 2i + 1 behind the header
WavBody(d) ==
  [j \in 1..(2 * Len(d)) |-> setInt16(At(d, (j - 1) \div 2))[2 - (j % 2)]]

\* what createWavBuffer hands back: it threw, or the buffer
WavThrew == [threw |-> TRUE, buffer |-> <<>>]

\* `!sample.data` holds for a missing property only: a typed array, empty or
\* not, is an object
createWavBuffer(s) ==
  IF ~Defined(s, "data") THEN WavThrew
  ELSE [threw  |-> FALSE,
        buffer |-> WavRIFF \o setUint32(36 + Len(s.data) * 2)
                     \o WavWAVE \o WavFmt \o setUint32(16)
                     \o setUint16(1) \o setUint16(1)
                     \o setUint32(s.sampleRate) \o setUint32(s.sampleRate * 2)
                     \o setUint16(2) \o setUint16(16)
                     \o WavData \o setUint32(Len(s.data) * 2)
                     \o WavBody(s.data)]

----------------------------------------------------------------------------
(* The UI around the two services, src/unnamed/part_000 *)

\* Array.prototype.filter, as the 0-based indices of the elements kept;
\* keep[i + 1] tells whether the callback accepts arr[i]
RECURSIVE Filter(_, _)
Filter(keep, i) ==
  IF i >= Len(keep) THEN <<>>
  ELSE (IF At(keep, i) THEN <<i>> ELSE <<>>) \o Filter(keep, i + 1)

\* line 83
ValidPreset(p) == p.name # EOP /\ trim(p.name) # <<>>
\* mutant of ValidSample: every sample header is exported
ValidSampleAll(s) == TRUE

\* line 128: an Int16Array, even an empty one, is truthy
ValidSample(s) == s.name # EOS

validPresets(table) == Filter([k \in 1..Len(table) |-> ValidPreset(table[k])], 0)
validSamples(table) == Filter([k \in 1..Len(table) |-> ValidSample(table[k])], 0)

\* handleFileChange, lines 79-85: parse resolved
HandleParsed ==
  /\ ppc = "returned"
  /\ ppc' = "none"
  /\ parsedData' = data
  /\ dataFrom' = parsing
  /\ IF Defined(data, "presets")
       THEN /\ presets' = validPresets(data["presets"])
            /\ presetsFrom' = parsing
            /\ status' = "idle"
       ELSE \* data.presets.filter of undefined, caught at line 86
            /\ status' = "error"
            /\ UNCHANGED <<presets, presetsFrom>>
  /\ parsing' = 0
  /\ UNCHANGED <<file, reading>>
  /\ UNCHANGED <<buffer, offset, limit, pdtaLocal, pdta, sdtaOffset, sdtaSize,
                 data, error, seen>>
  /\ UNCHANGED <<preset, outputBase, pc, sfz, pBagStart, pBagEnd,
                 globalPresetGens, pb, pGens, instId, iBagStart, iBagEnd,
                 globalInstGens, ib, regions, presetIdx, exported, wavVars>>

\* handleFileChange, lines 86-89: parse rejected
HandleFailed ==
  /\ ppc = "threw"
  /\ ppc' = "none"
  /\ status' = "error"
  /\ parsing' = 0
  /\ UNCHANGED <<buffer, offset, limit, pdtaLocal, pdta, sdtaOffset, sdtaSize,
                 data, error, seen>>
  /\ UNCHANGED <<convVars, presetIdx, presets, exported, wavVars, file, reading,
                 dataFrom, presetsFrom>>

\* the name of each file the user can select: "B.sf2", "C.sf2", "D.sf2.sf2"
DotSf2 == <<46, 115, 102, 50>>
FileName(f) ==
  IF f = 3 THEN <<68>> \o DotSf2 \o DotSf2 ELSE <<65 + f>> \o DotSf2

\* String.prototype.replace(pattern, '') with a string pattern: the first
\* occurrence is removed
IndexOf(str, pattern) ==
  LET hits == { i \in 1..(Len(str) - Len(pattern) + 1) :
                  SubSeq(str, i, i + Len(pattern) - 1) = pattern }
  IN  IF hits = {} THEN 0 ELSE CHOOSE i \in hits : \A j \in hits : i <= j
replace(str, pattern) ==
  IF IndexOf(str, pattern) = 0 THEN str
  ELSE SubSeq(str, 1, IndexOf(str, pattern) - 1)
         \o SubSeq(str, IndexOf(str, pattern) + Len(pattern), Len(str))

\* convertAndDownload, lines 92-110; the button is rendered when a file is
\* selected and enabled in the stages idle and complete only
ConvertClick ==
  /\ status \in {"idle", "complete"}
  /\ ppc = "none"
  /\ file # 0
  /\ parsedData # <<>>
  /\ status' = "converting"
  /\ outputBase' = replace(FileName(file), DotSf2)
  /\ presetIdx' = 0
  /\ exported' = <<>>
  /\ pc' = "idle"
  /\ UNCHANGED <<parseVars, presets, parsedData, preset, sfz,
                 pBagStart, pBagEnd, globalPresetGens, pb, pGens, instId,
                 iBagStart, iBagEnd, globalInstGens, ib, regions, wavVars,
                 fileVars>>

\* lines 112-121: getSFZContent is called for presets[i]
ConvertPreset ==
  /\ status = "converting"
  /\ pc \in {"idle", "done"}
  /\ presetIdx < Len(presets)
  /\ preset' = At(presets, presetIdx)
  /\ presetIdx' = presetIdx + 1
  /\ pc' = "start"
  /\ sfz' = <<>>
  /\ regions' = <<>>
  /\ pBagStart' = 0 /\ pBagEnd' = 0 /\ pb' = 0
  /\ iBagStart' = 0 /\ iBagEnd' = 0 /\ ib' = 0
  /\ instId' = 0
  /\ globalPresetGens' = EmptyGens /\ pGens' = EmptyGens
  /\ globalInstGens' = EmptyGens
  /\ UNCHANGED <<parseVars, parsedData, outputBase, status, presets, exported,
                 wavVars,
                 fileVars>>

\* one archive entry per exported sample and preset folder, lines 139-151
WavEntries(samples, kept, listed) ==
  [k \in 1..(Len(kept) * Len(listed)) |->
     [sample |-> At(kept, (k - 1) \div Len(listed)),
      preset |-> At(listed, (k - 1) % Len(listed)),
      file   |-> sanitize(At(samples, At(kept, (k - 1) \div Len(listed))).name)
                   \o DotWav,
      wav    |-> createWavBuffer(At(samples, At(kept, (k - 1) \div Len(listed)))).buffer]]

\* lines 128-166: the sample export, then the archive is built
ExportSamples ==
  /\ status = "converting"
  /\ pc \in {"idle", "done"}
  /\ presetIdx >= Len(presets)
  /\ IF \E j \in 1..Len(parsedData.samples) :
          /\ ValidSample(parsedData.samples[j])
          /\ createWavBuffer(parsedData.samples[j]).threw
       THEN \* caught at line 167
            /\ status' = "error"
            /\ UNCHANGED exported
       ELSE /\ exported' = WavEntries(parsedData.samples,
                                      validSamples(parsedData.samples), presets)
            /\ status' = "complete"
  /\ pc' = "idle"
  /\ UNCHANGED <<parseVars, parsedData, preset, outputBase, sfz, pBagStart,
                 pBagEnd, globalPresetGens, pb, pGens, instId, iBagStart,
                 iBagEnd, globalInstGens, ib, regions, presetIdx, presets, wavVars,
                 fileVars>>

\* lines 167-170: an error thrown by getSFZContent is caught
ConvertCatch ==
  /\ status = "converting"
  /\ pc = "failed"
  /\ status' = "error"
  /\ pc' = "idle"
  /\ UNCHANGED <<parseVars, parsedData, preset, outputBase, sfz, pBagStart,
                 pBagEnd, globalPresetGens, pb, pGens, instId, iBagStart,
                 iBagEnd, globalInstGens, ib, regions, presetIdx, presets,
                 exported, wavVars,
                 fileVars>>

AppNext ==
  \/ HandleParsed
  \/ HandleFailed
  \/ ConvertClick
  \/ ConvertPreset
  \/ ExportSamples
  \/ ConvertCatch

----------------------------------------------------------------------------
(* SoundFont files the parser is run on.  Every file is built chunk by     *)
(* chunk from one bank: a preset with one zone, the EOP record, an         *)
(* instrument with two zones, the EOI record, a sample header, the EOS     *)
(* record and a PCM pool of four values.  The variants change the RIFF     *)
(* header, add chunks the walk has to skip, pad one pdta sub-chunk so that *)
(* its size is no multiple of the record width, drop the phdr or the smpl  *)
(* sub-chunk, or leave stray bytes behind the last chunk.  Every file that *)
(* yields a preset list carries the six other tables as well.              *)

MaxPad == 2

U16Bytes(n) == << n % 256, (n \div 256) % 256 >>
U32Bytes(n) == U16Bytes(n % 65536) \o U16Bytes(n \div 65536)
Zeros(n) == [i \in 1..n |-> 0]
Name20(s) == s \o Zeros(20 - Len(s))

Chunk(tag, body) == tag \o U32Bytes(Len(body)) \o body
\* a sub-chunk whose declared size counts `pad` bytes behind its records
Padded(tag, body, pad) ==
  tag \o U32Bytes(Len(body) + pad) \o body \o [i \in 1..pad |-> 65]

PhdrBytes(name, bagIndex) ==
  Name20(name) \o U16Bytes(0) \o U16Bytes(0) \o U16Bytes(bagIndex) \o Zeros(12)
BagBytes(generatorStart) == U16Bytes(generatorStart) \o U16Bytes(0)
GenBytes(operator, amount) == U16Bytes(operator) \o U16Bytes(amount)
InstBytes(name, bagIndex) == Name20(name) \o U16Bytes(bagIndex)
ShdrBytes(name, start, end, pitch, corr) ==
  Name20(name) \o U32Bytes(start) \o U32Bytes(end) \o U32Bytes(start)
    \o U32Bytes(end) \o U32Bytes(44100) \o <<pitch, corr % 256>>
    \o U16Bytes(0) \o U16Bytes(1)

TestName == <<84, 101, 115, 116>>
BlankName == <<32, 32>>
PresetNames == {TestName, BlankName}

\* the body of each pdta sub-chunk; `target` is the instrument the preset
\* zone names: 0, or 1 for the EOI record; `span` is <<start, end>> of the
\* sample header
TableBody(tag, pname, target, span) ==
  CASE tag = phdr -> PhdrBytes(pname, 0) \o PhdrBytes(EOP, 1)
    [] tag = pbag -> BagBytes(0) \o BagBytes(1)
    [] tag = pgen -> GenBytes(OPER_INSTRUMENT, target) \o GenBytes(0, 0)
    [] tag = inst -> InstBytes(<<73, 49>>, 0) \o InstBytes(EOI, 2)
    [] tag = ibag -> BagBytes(0) \o BagBytes(2) \o BagBytes(3)
    [] tag = igen -> GenBytes(OPER_PAN, -7) \o GenBytes(OPER_SAMPLE_ID, 0)
                       \o GenBytes(OPER_SAMPLE_ID, 1) \o GenBytes(0, 0)
    [] tag = shdr -> ShdrBytes(<<83, 110, 100>>, span[1], span[2], 60, -5)
                       \o ShdrBytes(EOS, 0, 0, 0, 0)

TableOrder == <<phdr, pbag, pgen, inst, ibag, igen, shdr>>
xhdr == <<120, 104, 100, 114>>
pmod == <<112, 109, 111, 100>>
sm24 == <<115, 109, 50, 52>>
INFO == <<73, 78, 70, 79>>
JUNK == <<74, 85, 78, 75>>

RECURSIVE PdtaBody(_, _, _, _, _, _, _)
PdtaBody(k, pname, target, padAt, pad, nophdr, span) ==
  IF k > Len(TableOrder) THEN <<>>
  ELSE Padded(IF nophdr /\ TableOrder[k] = phdr THEN xhdr ELSE TableOrder[k],
              TableBody(TableOrder[k], pname, target, span),
              IF padAt = k THEN pad ELSE 0)
         \o PdtaBody(k + 1, pname, target, padAt, pad, nophdr, span)

Pcm == U16Bytes(3) \o U16Bytes(-4) \o U16Bytes(7) \o U16Bytes(-32768)

\* the chunks behind the 12-byte header
Chunks(extras, pname, target, padAt, pad, nophdr, nosmpl, stray, span) ==
  (IF extras
     THEN Chunk(JUNK, <<1, 2>>) \o Chunk(LIST, INFO \o Chunk(JUNK, <<9>>))
     ELSE <<>>)
  \o Chunk(LIST, sdtaTag
                   \o (IF extras THEN Chunk(sm24, <<5, 6>>) ELSE <<>>)
                   \o (IF nosmpl THEN <<>> ELSE Chunk(smpl, Pcm)))
  \o Chunk(LIST, pdtaTag
                   \o (IF extras THEN Chunk(pmod, Zeros(10)) ELSE <<>>)
                   \o PdtaBody(1, pname, target, padAt, pad, nophdr, span))
  \o (IF stray THEN <<1, 2, 3>> ELSE <<>>)

PlainSpan == <<0, 2>>
\* sample ranges: inside the pool of four values, empty, reversed, running
\* past the pool, running past the file
Spans == { PlainSpan, <<1, 4>>, <<2, 2>>, <<3, 1>>, <<3, 6>>, <<3, 400>> }

PlainChunks == Chunks(FALSE, TestName, 0, 0, 0, FALSE, FALSE, FALSE, PlainSpan)

RIFX == <<82, 73, 70, 88>>
RIF0 == <<82, 73, 70, 0>>
sfb0 == <<115, 102, 98, 0>>
Sfbk == <<83, 102, 98, 107>>

\* the size field: right, zero, or 0x7FFFFFFF
SizeFields(body) == { U32Bytes(4 + Len(body)), U32Bytes(0), <<255, 255, 255, 127>> }

Files ==
  \* header variants of the plain bank, whole and cut short
  { SubSeq(tag \o size \o form \o PlainChunks, 1, n) :
      tag \in {RIFF, RIFX, RIF0}, size \in SizeFields(PlainChunks),
      form \in {sfbk, sfb0, Sfbk}, n \in {2, 6, 10, 12 + Len(PlainChunks)} }
  \cup
  \* a sound header with the right size field, the variants of the chunks
  { RIFF \o U32Bytes(4 + Len(body)) \o sfbk \o body :
      body \in { Chunks(extras, pname, target, padAt, pad, nophdr, nosmpl, stray,
                          PlainSpan) :
                   extras \in BOOLEAN, pname \in PresetNames, target \in {0, 1},
                   padAt \in 0..Len(TableOrder), pad \in 1..MaxPad,
                   nophdr \in BOOLEAN, nosmpl \in BOOLEAN, stray \in BOOLEAN } }
  \cup
  \* the plain bank with each sample range, with and without the smpl
  \* sub-chunk, with and without a last chunk that makes the length odd
  { RIFF \o U32Bytes(4 + Len(body)) \o sfbk \o body :
      body \in { Chunks(FALSE, TestName, 0, 0, 0, FALSE, nosmpl, FALSE, span) \o tail :
                   nosmpl \in BOOLEAN, span \in Spans,
                   tail \in {<<>>, Chunk(JUNK, <<9>>)} } }

\* a file has been picked and handed to a new parser, lines 70-78
ParseInit ==
  /\ buffer \in Files
  /\ offset = 0 /\ ppc = "header" /\ limit = 0
  /\ pdtaLocal = <<>> /\ pdta = <<>> /\ sdtaOffset = 0 /\ sdtaSize = 0
  /\ data = <<>> /\ error = "" /\ seen = <<>>
  /\ status = "parsing"
  /\ presets = <<>> /\ exported = <<>> /\ presetIdx = 0
  /\ WavIdle
  /\ parsedData = <<>>
  /\ preset = 0
  /\ outputBase = <<>>
  /\ pc = "idle"
  /\ ConvIdle
  /\ file = 1 /\ reading = {} /\ parsing = 1 /\ dataFrom = 0 /\ presetsFrom = 0

NextParse == ParseNext \/ AppNext \/ ConvNext
SpecParse == ParseInit /\ [][NextParse]_vars

\* parse runs to completion once called: no step of it waits for anything
SpecParseFair == SpecParse /\ WF_vars(ParseNext)

----------------------------------------------------------------------------
(* The page as the user drives it: files are selected, `Replace` is        *)
(* clicked, reads resolve in any order.  handleFileChange runs up to its   *)
(* `await selectedFile.arrayBuffer()`, and its rest (the parse and the     *)
(* state updates) runs when that read resolves; parse has no await of its  *)
(* own, so no event comes between its steps.  convertAndDownload works on  *)
(* the values of `file`, `parsedData` and `presets` of the render in which *)
(* the button was clicked, so no event reaches it either.                  *)

UIFiles == {1, 2, 3}

\* the bytes of each file: the plain bank; a bank with another preset name
\* on whose tables getSFZContent throws (the preset zone names the second
\* instrument record and ibag is padded by two bytes); no RIFF file
Contents(f) ==
  CASE f = 1 -> RIFF \o U32Bytes(4 + Len(PlainChunks)) \o sfbk \o PlainChunks
    [] f = 2 -> LET body == Chunks(FALSE, <<80, 97, 100>>, 1, 5, 2, FALSE, FALSE,
                                   FALSE, PlainSpan)
                IN  RIFF \o U32Bytes(4 + Len(body)) \o sfbk \o body
    [] OTHER -> RIFX \o U32Bytes(4) \o sfbk

\* no parse and no conversion is running: the event loop takes the next event
Quiet == ppc = "none" /\ status # "converting"

\* handleFileChange, lines 69-76, up to the await; the picker is rendered
\* only while `file` is null (line 201)
SelectFile(f) ==
  /\ Quiet
  /\ file = 0
  /\ f \notin reading
  /\ file' = f
  /\ status' = "parsing"
  /\ reading' = reading \cup {f}
  /\ UNCHANGED <<convVars, parseVars, presetIdx, presets, exported, wavVars,
                 parsing, dataFrom, presetsFrom>>

\* lines 76-78: the read of f resolves and a parser is made for its bytes
ReadDone(f) ==
  /\ Quiet
  /\ f \in reading
  /\ reading' = reading \ {f}
  /\ parsing' = f
  /\ buffer' = Contents(f)
  /\ offset' = 0
  /\ ppc' = "header"
  /\ limit' = 0 /\ pdtaLocal' = <<>> /\ pdta' = <<>>
  /\ sdtaOffset' = 0 /\ sdtaSize' = 0
  /\ data' = <<>> /\ error' = "" /\ seen' = <<>>
  /\ UNCHANGED <<convVars, status, presetIdx, presets, exported, wavVars, file,
                 dataFrom, presetsFrom>>

\* the Replace button, line 237: `parsedData` is not among the states reset
ReplaceClick ==
  /\ Quiet
  /\ file # 0
  /\ file' = 0
  /\ presets' = <<>>
  /\ presetsFrom' = 0
  /\ status' = "idle"
  /\ UNCHANGED <<convVars, parseVars, presetIdx, exported, wavVars, reading,
                 parsing, dataFrom>>

\* lines 58-61: the state of the page when it is mounted
UIInit ==
  /\ NoFile
  /\ status = "idle"
  /\ parsedData = <<>>
  /\ preset = 0
  /\ outputBase = <<>>
  /\ pc = "idle"
  /\ ConvIdle
  /\ ParseIdle
  /\ WavIdle

UINext ==
  \/ \E f \in UIFiles : SelectFile(f)
  \/ \E f \in UIFiles : ReadDone(f)
  \/ ReplaceClick
  \/ ParseNext
  \/ AppNext
  \/ ConvNext

SpecUI == UIInit /\ [][UINext]_vars

----------------------------------------------------------------------------
(* getSFZContent on one preset zone and one instrument zone whose key-range *)
(* generator takes every amount readInt16 can give, or is absent.          *)

KeyZones ==
  { << G(OPER_KEY_RANGE, v), G(OPER_SAMPLE_ID, 0) >> : v \in -32768..32767 }
  \cup { << G(OPER_SAMPLE_ID, 0) >> }

KeyInit ==
  /\ \E z \in KeyZones :
       parsedData = Tables(<< << G(OPER_INSTRUMENT, 0) >> >>, 1, << z >>, 1)
  /\ preset = 0
  /\ outputBase = <<66>>
  /\ pc = "start"
  /\ status = "converting"
  /\ ConvIdle
  /\ ParseIdle
  /\ WavIdle
  /\ NoFile

SpecKey == KeyInit /\ [][ConvNext]_vars

----------------------------------------------------------------------------
(* createWavBuffer on its own: every sample of up to MaxLen values, and a   *)
(* header that carries no data property.  The sample rates stay below 2^30 *)
(* so that twice the rate is a number the byte-rate field can hold.        *)

MaxLen == 3

WavValues == {-32768, -1, 0, 1, 255, 256, 32767}
WavRates == {8000, 44100, 65535, 65536, 1073741823}
WavNames == {<<83, 110, 100>>, EOS}

Seqs(S, n) == UNION { [1..k -> S] : k \in 0..n }
WithoutData(s) == [k \in DOMAIN s \ {"data"} |-> s[k]]
WithRate(s, rate) == [s EXCEPT !.sampleRate = rate]

WavSamples ==
  { WithRate(Sample(n, 60, 0, d), rate) :
      n \in WavNames, rate \in WavRates, d \in Seqs(WavValues, MaxLen) }
  \cup { WithoutData(Sample(n, 60, 0, <<>>)) : n \in WavNames }

WavInit ==
  /\ wavSample \in WavSamples
  /\ wavResult = <<>>
  /\ parsedData = <<>>
  /\ preset = 0
  /\ outputBase = <<>>
  /\ pc = "idle"
  /\ status = "idle"
  /\ ConvIdle
  /\ ParseIdle
  /\ NoFile

\* the call
CreateWav ==
  /\ wavResult = <<>>
  /\ wavResult' = createWavBuffer(wavSample)
  /\ UNCHANGED <<convVars, parseVars, status, presetIdx, presets, exported,
                 wavSample, fileVars>>

SpecWav == WavInit /\ [][CreateWav]_vars

----------------------------------------------------------------------------
(* What the tables declare, independently of how the converter reads them *)

\* the zone range [bagIndex(i), bagIndex(i+1)), or up to the table's end for
\* the last record
DeclaredEnd(records, bags, i) ==
  IF InRange(records, i + 1) THEN At(records, i + 1).bagIndex ELSE Len(bags)

\* the generator records at 0-based indices lo .. hi-1, as a map (a later
\* record of the same operator replaces an earlier one)
GensOf(genList, lo, hi) ==
  LET idx == { i \in lo .. hi - 1 : InRange(genList, i) }
      ops == { At(genList, i).operator : i \in idx }
      last(op) == CHOOSE i \in idx :
                    /\ At(genList, i).operator = op
                    /\ \A j \in idx : At(genList, j).operator = op => j <= i
  IN  [op \in ops |-> At(genList, last(op)).amount]

\* zone k's generators: [generatorStart(k), generatorStart(k+1))
DeclaredGens(bags, genList, k) ==
  GensOf(genList, At(bags, k).generatorStart,
         IF InRange(bags, k + 1) THEN At(bags, k + 1).generatorStart
                                 ELSE Len(genList))

Started == pc \in {"presetLoop", "instLoop", "done"}

\* the maps the converter reads for the zones it is at
FirstPresetGens == getGenerators(parsedData.pbag, parsedData.pgen, pBagStart)
FirstInstGens == getGenerators(parsedData.ibag, parsedData.igen, iBagStart)

----------------------------------------------------------------------------
(* C1 *)

\* the layer the claim expects: the first zone's map when it lacks the
\* terminating generator and the range holds at least `least` zones
ExpectedGlobal(first, terminator, bagStart, bagEnd, least) ==
  IF ~Present(first, terminator) /\ bagEnd - bagStart >= least
    THEN first ELSE EmptyGens

----------------------------------------------------------------------------
(* C2 *)

\* C2 as stated: the zone range walked for record i is exactly
\* [bagIndex(i), bagIndex(i+1)), or up to the zone table's end for the last
\* record, also when bagIndex(i+1) is 0 or equals bagIndex(i).
C2_ZoneRange ==
  /\ Started =>
       /\ pBagStart = At(parsedData.presets, preset).bagIndex
       /\ pBagEnd = DeclaredEnd(parsedData.presets, parsedData.pbag, preset)
  /\ pc = "instLoop" =>
       /\ iBagStart = At(parsedData.instruments, instId).bagIndex
       /\ iBagEnd = DeclaredEnd(parsedData.instruments, parsedData.ibag, instId)

----------------------------------------------------------------------------
(* C3 *)

\* C3 as stated: for a zone k that has a successor, getGenerators returns the
\* map of exactly the records in [generatorStart(k), generatorStart(k+1)),
\* also when generatorStart(k+1) is 0 or equals generatorStart(k).
C3_GeneratorRange ==
  /\ pc = "instLoop" /\ InRange(parsedData.pbag, pb + 1) =>
       pGens = DeclaredGens(parsedData.pbag, parsedData.pgen, pb)
  /\ \A n \in 1..Len(regions) :
       InRange(parsedData.ibag, regions[n].ib + 1) =>
         regions[n].i = DeclaredGens(parsedData.ibag, parsedData.igen, regions[n].ib)

----------------------------------------------------------------------------
(* The layers of an emitted region, read back from the tables *)

UsedGlobalPreset ==
  ExpectedGlobal(FirstPresetGens, OPER_INSTRUMENT, pBagStart, pBagEnd, 1)

UsedPresetZone(r) == getGenerators(parsedData.pbag, parsedData.pgen, r.pb)

UsedInstrument(r) == UsedPresetZone(r)[OPER_INSTRUMENT]

UsedGlobalInst(r) ==
  LET id    == UsedInstrument(r)
      start == At(parsedData.instruments, id).bagIndex
  IN  ExpectedGlobal(getGenerators(parsedData.ibag, parsedData.igen, start),
                     OPER_SAMPLE_ID, start,
                     BagEnd(parsedData.instruments, parsedData.ibag, id), 1)

UsedInstZone(r) == getGenerators(parsedData.ibag, parsedData.igen, r.ib)

\* the layers of region r, lowest precedence first
Layers(r) ==
  << UsedGlobalPreset, UsedPresetZone(r), UsedGlobalInst(r), UsedInstZone(r) >>

\* the highest-numbered layer among `order` (highest precedence last) that
\* holds key k; 0 when none does
RECURSIVE TopLayer(_, _, _)
TopLayer(layers, order, k) ==
  IF order = <<>> THEN 0
  ELSE IF Present(layers[order[Len(order)]], k) THEN order[Len(order)]
  ELSE TopLayer(layers, SubSeq(order, 1, Len(order) - 1), k)

\* the lines of the n-th <region> block of the document
RegionBlock(n) ==
  SubSeq(sfz, regions[n].at + 1,
         IF n < Len(regions) THEN regions[n + 1].at ELSE Len(sfz))

LinesWith(block, k) == { j \in 1..Len(block) : block[j].key = k }

RangeOps == {OPER_KEY_RANGE, OPER_VEL_RANGE}

----------------------------------------------------------------------------
(* C4 *)

----------------------------------------------------------------------------
(* C5 *)

\* the range lines of the n-th block agree with "the range used is layer
\* `top`'s" (top = 0: unranged)
RangeLinesAre(n, ls, top, op) ==
  LET block == RegionBlock(n)
      v     == ls[top][op]
      lo    == v % 128
      hi    == (v \div 256) % 128
  IN  IF op = OPER_KEY_RANGE
        THEN /\ LinesWith(block, "key") \cup LinesWith(block, "lokey hikey") = {3}
             /\ block[3] = IF top = 0 THEN Line("lokey hikey", <<0, 127>>)
                           ELSE IF lo = hi THEN Line("key", <<lo>>)
                           ELSE Line("lokey hikey", <<lo, hi>>)
        ELSE IF top = 0
               THEN LinesWith(block, "lovel hivel") = {}
               ELSE /\ LinesWith(block, "lovel hivel") = {4}
                    /\ block[4] = Line("lovel hivel", <<lo, hi>>)

RangeFrom(order) ==
  \A n \in 1..Len(regions) : \A op \in RangeOps :
    LET ls  == Layers(regions[n])
        top == TopLayer(ls, order, op)
    IN  /\ Present(regions[n].combined, op) <=> top # 0
        /\ top # 0 => regions[n].combined[op] = ls[top][op]
        /\ RangeLinesAre(n, ls, top, op)

\* C5 as stated: the key range (and the velocity range) of a region is the
\* instrument zone's if it has one, else the preset zone's if it has one, else
\* the region is unranged; a range held only by a global zone gives none.
C5_AsStated == RangeFrom(<<2, 4>>)

\* C5 amended: the range used is the instrument zone's if it has one, else the
\* preset zone's, else the global instrument zone's, else the global preset
\* zone's; the region is unranged only when none of the four holds one.
C5_RangePrecedence == RangeFrom(<<1, 3, 2, 4>>)

\* a region that takes its key range from the global preset zone alone
C5_Witness ==
  \E n \in 1..Len(regions) :
    LET ls == Layers(regions[n])
    IN  /\ TopLayer(ls, <<1, 3, 2, 4>>, OPER_KEY_RANGE) = 1
        /\ ~Present(ls[2], OPER_KEY_RANGE) /\ ~Present(ls[4], OPER_KEY_RANGE)
        /\ LinesWith(RegionBlock(n), "lokey hikey") = {3}
        /\ RegionBlock(n)[3].val = <<36, 60>>

----------------------------------------------------------------------------
(* C6 *)

Pairs == { <<regions[n].pb, regions[n].ib>> : n \in 1..Len(regions) }

\* the (preset zone, instrument zone) pairs the tables declare for the preset
DeclaredPairs ==
  LET pzones == At(parsedData.presets, preset).bagIndex ..
                  DeclaredEnd(parsedData.presets, parsedData.pbag, preset) - 1
      pg(b)  == DeclaredGens(parsedData.pbag, parsedData.pgen, b)
      ig(z)  == DeclaredGens(parsedData.ibag, parsedData.igen, z)
      izones(id) == At(parsedData.instruments, id).bagIndex ..
                      DeclaredEnd(parsedData.instruments, parsedData.ibag, id) - 1
  IN  { bz \in pzones \X (0 .. Len(parsedData.ibag) - 1) :
          /\ Present(pg(bz[1]), OPER_INSTRUMENT)
          /\ InRange(parsedData.instruments, pg(bz[1])[OPER_INSTRUMENT])
          /\ bz[2] \in izones(pg(bz[1])[OPER_INSTRUMENT])
          /\ Present(ig(bz[2]), OPER_SAMPLE_ID)
          /\ InRange(parsedData.samples, ig(bz[2])[OPER_SAMPLE_ID])
          /\ At(parsedData.samples, ig(bz[2])[OPER_SAMPLE_ID]).name # EOS }

\* C6 as stated: the document holds exactly one <region> for each pair of a
\* zone of the preset's range naming an existing instrument and a zone of that
\* instrument's range naming an existing sample other than EOS, and no other.
C6_OneRegionPerPair ==
  pc = "done" =>
    /\ Pairs = DeclaredPairs
    /\ Len(regions) = Cardinality(DeclaredPairs)
    /\ Cardinality(LinesWith(sfz, "<region>")) = Cardinality(DeclaredPairs)

----------------------------------------------------------------------------
(* C7 *)

\* the pairs of the ranges the converter walks whose references resolve
WalkedPairs ==
  LET pg(b) == getGenerators(parsedData.pbag, parsedData.pgen, b)
      ig(z) == getGenerators(parsedData.ibag, parsedData.igen, z)
  IN  { bz \in (pBagStart .. pBagEnd - 1) \X (0 .. Len(parsedData.ibag) - 1) :
          /\ Present(pg(bz[1]), OPER_INSTRUMENT)
          /\ InRange(parsedData.instruments, pg(bz[1])[OPER_INSTRUMENT])
          /\ LET id == pg(bz[1])[OPER_INSTRUMENT]
             IN  bz[2] \in At(parsedData.instruments, id).bagIndex ..
                             BagEnd(parsedData.instruments, parsedData.ibag, id) - 1
          /\ Present(ig(bz[2]), OPER_SAMPLE_ID)
          /\ InRange(parsedData.samples, ig(bz[2])[OPER_SAMPLE_ID])
          /\ At(parsedData.samples, ig(bz[2])[OPER_SAMPLE_ID]).name # EOS }

\* zones of the walked ranges whose instrument / sample index is outside its
\* table
DanglingPresetZones ==
  { b \in pBagStart .. pBagEnd - 1 :
      LET g == getGenerators(parsedData.pbag, parsedData.pgen, b)
      IN  Present(g, OPER_INSTRUMENT)
            /\ ~InRange(parsedData.instruments, g[OPER_INSTRUMENT]) }

DanglingInstZones ==
  { z \in 0 .. Len(parsedData.ibag) - 1 :
      LET g == getGenerators(parsedData.ibag, parsedData.igen, z)
      IN  Present(g, OPER_SAMPLE_ID)
            /\ ~InRange(parsedData.samples, g[OPER_SAMPLE_ID]) }

\* C7: a zone whose instrument or sample index lies outside its table
\* (negative included) never makes getSFZContent fail; it contributes no
\* region, the zones after it are still processed, and the document always
\* starts with the comment header and the <control> block with default_path.
C7_DanglingTolerated ==
  /\ pc # "failed"
  /\ pc # "start" =>
       /\ Len(sfz) >= 6
       /\ sfz[1] = Line("//", trim(At(parsedData.presets, preset).name))
       /\ sfz[4] = Line("<control>", <<>>)
       /\ sfz[5] = Line("default_path",
                        outputBase \o <<32>>
                          \o trim(At(parsedData.presets, preset).name)
                          \o SamplesSuffix)
  /\ \A n \in 1..Len(regions) :
       /\ regions[n].pb \notin DanglingPresetZones
       /\ regions[n].ib \notin DanglingInstZones
  /\ pc = "done" =>
       /\ Pairs = WalkedPairs
       /\ Len(regions) = Cardinality(WalkedPairs)

\* a finished conversion that met a negative instrument index and a sample
\* index past the table, and emitted a region for a zone after each of them
C7_Witness ==
  /\ pc = "done"
  /\ \E b \in DanglingPresetZones, z \in DanglingInstZones :
       /\ getGenerators(parsedData.pbag, parsedData.pgen, b)[OPER_INSTRUMENT] < 0
       /\ \E n \in 1..Len(regions) : regions[n].pb > b /\ regions[n].ib > z

----------------------------------------------------------------------------
(* What the file holds, read without the parser *)

\* the four bytes at `off` are exactly `tag`
TagAt(buf, off, tag) == CanRead(buf, off, 4) /\ SubSeq(buf, off + 1, off + 4) = tag
SoundHeader(buf) == TagAt(buf, 0, RIFF) /\ TagAt(buf, 8, sfbk)
FormatErrors == {"Not a RIFF file", "Not a SoundFont file"}

\* the fixed record width of each pdta table
Width(key) ==
  CASE key = "phdr" -> 38 [] key = "inst" -> 22 [] key = "shdr" -> 46
    [] OTHER -> 4
Misaligned(sub) == sub.size % Width(sub.id) # 0
\* the records of a decoded table that lie wholly inside the sub-chunk
WholeRecords(sub) == sub.size \div Width(sub.id)

SentinelNames == {EOP, EOI, EOS, <<>>}
Names(table) == { table[k].name : k \in 1..Len(table) }
Listed(i) == \E k \in 1..Len(presets) : presets[k] = i
Running == pc \in {"start", "presetLoop", "instLoop", "done", "failed"}

----------------------------------------------------------------------------
\* C8 as stated: the preset, instrument and sample collections parse returns
\* hold no record named EOP, EOI, EOS or with an empty name.
C8_AsStated ==
  ppc = "returned" =>
    \A key \in {"presets", "instruments", "samples"} :
      Defined(data, key) => Names(data[key]) \cap SentinelNames = {}

\* C8: parse hands over the tables as decoded, terminal records included; the
\* callers filter: the preset list holds no preset named EOP or with a blank
\* name, a document is only ever built for a listed preset, no region names a
\* sample called EOS, and the exported WAV set holds no sample called EOS.
C8_SentinelFiltering ==
  /\ \A k \in 1..Len(presets) :
       /\ At(parsedData.presets, presets[k]).name # EOP
       /\ trim(At(parsedData.presets, presets[k]).name) # <<>>
  /\ Running => Listed(preset)
  /\ \A k \in 1..Len(regions) :
       At(parsedData.samples, regions[k].sampleId).name # EOS
  /\ \A k \in 1..Len(exported) :
       /\ At(parsedData.samples, exported[k].sample).name # EOS
       /\ Listed(exported[k].preset)

\* a bank whose tables end with EOP and EOS has been converted and exported
C8_Witness ==
  /\ status = "complete"
  /\ Len(regions) > 0
  /\ Len(exported) > 0
  /\ EOP \in Names(parsedData.presets)
  /\ EOS \in Names(parsedData.samples)
  /\ Len(presets) < Len(parsedData.presets)

----------------------------------------------------------------------------
\* C9: once the header has been looked at, a file whose first four bytes are
\* not RIFF or whose bytes 8..11 are not sfbk has made parse throw and no
\* table of it exists anywhere; a file with both tags is never rejected as a
\* format error, whatever its size field holds, and the cursor has moved
\* past the size field.
C9_HeaderVerdict ==
  ppc # "header" =>
    IF SoundHeader(buffer)
      THEN error \notin FormatErrors /\ offset >= 12
      ELSE /\ ppc \in {"threw", "none"}
           /\ error # ""
           /\ CanRead(buffer, 0, 12) => error \in FormatErrors
           /\ data = <<>> /\ parsedData = <<>> /\ presets = <<>>
           /\ status \in {"parsing", "error"}
           /\ pc = "idle"

\* a file with the RIFF tag and a wrong form type has been refused
C9_Witness ==
  /\ TagAt(buffer, 0, RIFF)
  /\ CanRead(buffer, 0, 12) /\ ~TagAt(buffer, 8, sfbk)
  /\ error = "Not a SoundFont file"
  /\ status = "error"
  /\ parsedData = <<>>

----------------------------------------------------------------------------
\* C10 as stated: parse never returns after decoding a pdta sub-chunk whose
\* size is no multiple of the record width.
C10_AsStated ==
  ppc = "returned" => \A k \in 1..Len(seen) : ~Misaligned(seen[k])

----------------------------------------------------------------------------
(* Reading a WAV buffer back *)

LE16(b, off) == b[off + 1] + 256 * b[off + 2]
LE32(b, off) == LE16(b, off) + 65536 * LE16(b, off + 2)
Signed16(b, off) == IF LE16(b, off) >= 32768 THEN LE16(b, off) - 65536 ELSE LE16(b, off)
Tag(b, off) == SubSeq(b, off + 1, off + 4)
Called == wavResult # <<>>
NoData(s) == ~Defined(s, "data") \/ Len(s.data) = 0

\* C11 as stated: for a sample without data, a sentinel or a sample of zero
\* length included, createWavBuffer throws and hands back no buffer.
C11_AsStated ==
  (Called /\ NoData(wavSample)) => (wavResult.threw /\ wavResult.buffer = <<>>)

----------------------------------------------------------------------------
(* Bits of a two's-complement number *)

Bit(x, k) == (x \div (2 ^ k)) % 2
\* x & 0x7F
And7F(x) ==
  Bit(x, 0) + 2 * Bit(x, 1) + 4 * Bit(x, 2) + 8 * Bit(x, 3) + 16 * Bit(x, 4)
    + 32 * Bit(x, 5) + 64 * Bit(x, 6)
\* (x >> 8) & 0x7F
Shr8And7F(x) ==
  Bit(x, 8) + 2 * Bit(x, 9) + 4 * Bit(x, 10) + 8 * Bit(x, 11) + 16 * Bit(x, 12)
    + 32 * Bit(x, 13) + 64 * Bit(x, 14)

\* C13: a region whose key-range amount is v has the low bound v & 0x7F and
\* the high bound (v >> 8) & 0x7F; equal bounds give one `key` line and no
\* `lokey hikey` line, different bounds exactly one `lokey hikey` line and no
\* `key` line; without a key-range generator the line is lokey=0 hikey=127.
C13_KeyRange ==
  \A n \in 1..Len(regions) :
    LET block == RegionBlock(n)
        c     == regions[n].combined
        keys  == LinesWith(block, "key")
        pairs == LinesWith(block, "lokey hikey")
    IN  IF Present(c, OPER_KEY_RANGE)
          THEN LET lo == And7F(c[OPER_KEY_RANGE])
                   hi == Shr8And7F(c[OPER_KEY_RANGE])
               IN  IF lo = hi
                     THEN /\ pairs = {}
                          /\ Cardinality(keys) = 1
                          /\ \A j \in keys : block[j].val = <<lo>>
                     ELSE /\ keys = {}
                          /\ Cardinality(pairs) = 1
                          /\ \A j \in pairs : block[j].val = <<lo, hi>>
          ELSE /\ keys = {}
               /\ Cardinality(pairs) = 1
               /\ \A j \in pairs : block[j].val = <<0, 127>>

\* a finished document whose region has the negative amount -32640
\* (0x8080): bits 7 and 15 are dropped, both bounds are 0, a single key line
C13_Witness ==
  /\ pc = "done"
  /\ Len(regions) = 1
  /\ Present(regions[1].combined, OPER_KEY_RANGE)
  /\ regions[1].combined[OPER_KEY_RANGE] = -32640
  /\ RegionBlock(1)[3] = Line("key", <<0>>)

----------------------------------------------------------------------------
(* The PCM pool: the body of the smpl sub-chunk the walk has recorded *)

\* a smpl sub-chunk was found (its body starts behind at least 20 bytes)
PoolFound == sdtaOffset > 0
PoolBytes == IF PoolFound THEN sdtaSize ELSE 0
\* the value at frame f of the pool
PoolValue(f) == Signed16(buffer, sdtaOffset + 2 * f)
InsidePool(s) == s.start <= s.end /\ 2 * s.end <= PoolBytes

\* C14 as stated: every sample header parse returns carries the values of
\* the pool at frames start .. end - 1 when that range lies inside the pool,
\* no data when the range is empty, and never a value read outside the
\* smpl sub-chunk.
C14_AsStated ==
  ppc = "returned" =>
    \A j \in 1..Len(data.samples) :
      LET s == data.samples[j]
      IN  /\ s.end <= s.start => s.data = <<>>
          /\ InsidePool(s) =>
                s.data = [k \in 1..(s.end - s.start) |-> PoolValue(s.start + k - 1)]
          /\ s.data # <<>> => 2 * (s.start + Len(s.data)) <= PoolBytes

-----------------------------------------------------------------------------
(* C15: when an instrument zone references a sample header that has no      *)
(* realizable data, getSFZContent emits no region for it and goes on: every *)
(* region emitted names a sample whose data is not empty.                   *)

HasData(id) ==
  /\ InRange(parsedData.samples, id)
  /\ Defined(At(parsedData.samples, id), "data")
  /\ At(parsedData.samples, id).data # <<>>

C15_AsStated ==
  \A n \in 1..Len(regions) : HasData(regions[n].sampleId)

-----------------------------------------------------------------------------
(* C16: in the chunk walk, a top-level chunk that is not a LIST of type    *)
(* pdta or sdta, a sub-chunk of sdta other than smpl and a sub-chunk of    *)
(* pdta other than the seven tables are skipped: the cursor moves to the   *)
(* start of the body plus the declared size, and the tables and the PCM    *)
(* range recorded so far are unchanged. The cursor strictly increases at   *)
(* every chunk or sub-chunk read and never decreases, and the walk ends,   *)
(* at the end of the buffer or with an error, for every input.             *)

Walking == {"chunks", "pdta", "sdta"}

\* the walk is about to read a chunk or sub-chunk header at the cursor
Reads ==
  \/ ppc = "chunks" /\ offset < Len(buffer)
  \/ ppc \in {"pdta", "sdta"} /\ offset < limit

\* the chunk at the cursor is one the walk has no use for, by its raw bytes
Skippable ==
  \/ /\ ppc = "chunks"
     /\ ~(/\ TagAt(buffer, offset, LIST)
          /\ TagAt(buffer, offset + 8, pdtaTag) \/ TagAt(buffer, offset + 8, sdtaTag))
  \/ /\ ppc = "pdta"
     /\ \A t \in {phdr, pbag, pgen, inst, ibag, igen, shdr} : ~TagAt(buffer, offset, t)
  \/ /\ ppc = "sdta"
     /\ ~TagAt(buffer, offset, smpl)

WalkEnded == ppc = "threw" \/ (ppc = "chunks" /\ offset >= Len(buffer))

C16_Step ==
  /\ ppc \in Walking => offset' >= offset
  /\ (Reads /\ ppc' # "threw") =>
       /\ offset' > offset
       /\ Skippable =>
            /\ offset' = offset + 8 + LE32(buffer, offset + 4)
            /\ UNCHANGED <<ppc, pdta, pdtaLocal, sdtaOffset, sdtaSize, seen>>

C16_SkipAndProgress == [][C16_Step]_vars /\ <>WalkEnded

\* the cursor stands right behind the chunk with this tag, at this level of
\* the walk
Behind(tag, level) ==
  /\ ppc = level
  /\ \E c \in 12..(offset - 8) :
       /\ TagAt(buffer, c, tag)
       /\ offset = c + 8 + LE32(buffer, c + 4)

\* a last top-level chunk of odd size has been skipped, with the tables and
\* the PCM range recorded before it still in place
C16_Witness ==
  /\ Behind(JUNK, "chunks")
  /\ offset = Len(buffer)
  /\ Len(buffer) % 2 = 1
  /\ Defined(pdta, "shdr")
  /\ sdtaOffset > 0

-----------------------------------------------------------------------------
(* C17: under every interleaving of file selections, Replace clicks and    *)
(* read/parse completions, whenever convertAndDownload calls getSFZContent *)
(* the decoded tables and the preset list it uses were produced from the   *)
(* file selected, the one whose name gives outputBase.                     *)

\* getSFZContent has just been called by convertAndDownload
ConvertCalls == status = "converting" /\ pc = "start"

C17_AsStated ==
  ConvertCalls =>
    /\ file # 0
    /\ outputBase = replace(FileName(file), DotSf2)
    /\ dataFrom = file
    /\ presetsFrom = file

====
